---- MODULE Spec2Model ----
(***************************************************************************)
(* Model of src/harness/core.ts: the sorted KeyedCollection (binary search *)
(* over parallel arrays, insertion-order enumeration with copy-on-write)   *)
(* and the Metadata overlay store (prototype-chained property maps with a  *)
(* version-stamped size cache).                                            *)
(***************************************************************************)
EXTENDS Integers, Sequences, FiniteSets, TLC

VARIABLES
    _keys,          \* KeyedCollection._keys   (live backing array)
    _values,        \* KeyedCollection._values (live backing array)
    _order,         \* KeyedCollection._order  (live backing array)
    _version,       \* KeyedCollection._version
    _copyOnWrite,   \* KeyedCollection._copyOnWrite
    frames,         \* activations of KeyedCollection.forEach, outermost first
    caller,         \* what the caller of the collection works with: its keys, its values, how deep
                    \* it nests forEach, how far it drives _version
    ref,            \* reference map of the collection: <<key, value>> pairs, oldest insertion first
    chain,          \* what the user of the Metadata layers works with: the layers, keys and values in use
    heap,           \* the property-map objects created by Object.create
    md,             \* the Metadata layers
    everSet,        \* per Metadata layer, the keys ever passed to its set
    mdFrames,       \* activations of Metadata.forEach, outermost first
    search,         \* a call of binarySearch: its array and value, and its result once made
    ret             \* the last call made: the Metadata layer it was made on (0 for the
                    \* collection), the arguments of a forEach callback or of Metadata.set
                    \* (key, val), and what delete or size returned (val)

vars == <<_keys, _values, _order, _version, _copyOnWrite, frames, caller, ref, chain, heap, md, everSet, mdFrames, search, ret>>

\* ------------------------------------------------------------------------
\* Bounds and value domains
\* ------------------------------------------------------------------------

\* cap on KeyedCollection._version
MaxVersion == 4

\* cap on the nesting depth of forEach activations
MaxDepth == 2

\* cap on the sum of the Metadata layers' _version counters
MaxMdVersion == 4

\* cap on the nesting depth of Metadata.forEach activations
MaxMdDepth == 2

\* the greatest number in the arrays binarySearch is called with
MaxElement == 5

\* the JavaScript value undefined
Undefined == -1

\* the JavaScript value null, the prototype of a root property map
Null == 0

\* Metadata._undefinedValue, the object stored for a key set to undefined
_undefinedValue == -2

\* the Metadata layers: 1 is the root, the parent of layer i + 1 is layer i
Layers == {1, 2, 3}

\* the keys handed to the Metadata layers, as character sequences: "a" and "__"
MdKeys == { <<"a">>, <<"_", "_">> }

\* the users of the Metadata layers that are explored: one works with a
\* parent and a child, one key and many values, one with a chain of three
\* layers; two more work with a parent and a child and call forEach, one
\* with both keys and no nesting, one with one key and nesting up to
\* MaxMdDepth; all but the first make fewer structural changes
Chains ==
    { [layers |-> {1, 2}, keys |-> { <<"_", "_">> }, values |-> {1, 2, Undefined},
       depth |-> 0, versions |-> MaxMdVersion],
      [layers |-> {1, 2, 3}, keys |-> { <<"a">> }, values |-> {1},
       depth |-> 0, versions |-> MaxMdVersion - 1],
      [layers |-> {1, 2}, keys |-> MdKeys, values |-> {1, Undefined},
       depth |-> 1, versions |-> MaxMdVersion - 1],
      [layers |-> {1, 2}, keys |-> { <<"_", "_">> }, values |-> {1, Undefined},
       depth |-> MaxMdDepth, versions |-> MaxMdVersion - 2] }

\* identities of property-map objects: every layer can keep its own map and
\* one stale map per ancestor alive, every forEach in progress can keep the
\* map it enumerates and that map's ancestors alive, and clear() creates one
\* more before the map it replaces is dropped
ObjIds == 1..(((Cardinality(Layers) * (Cardinality(Layers) + 1)) \div 2)
                 + (MaxMdDepth * Cardinality(Layers)) + 1)

\* the callers of the KeyedCollection that are explored: one works with many
\* keys, one with many values, one nests forEach up to MaxDepth and makes
\* one structural change less
Callers ==
    { [keys |-> {1, 2, 3}, values |-> {1}, depth |-> 1, versions |-> MaxVersion],
      [keys |-> {1, 2}, values |-> {1, 2}, depth |-> 1, versions |-> MaxVersion],
      [keys |-> {1, 2}, values |-> {1}, depth |-> MaxDepth, versions |-> MaxVersion - 1] }

\* ------------------------------------------------------------------------
\* Comparers, binary search and the array splice primitives
\* ------------------------------------------------------------------------

identity(v) == v

compareNumbers(a, b) ==
    IF a = b THEN 0
    ELSE IF a = Undefined THEN -1
    ELSE IF b = Undefined THEN 1
    ELSE IF a < b THEN -1 ELSE 1

\* the complement as it would be if it were the negation
BitNot_Negate(n) == -n

\* the bitwise complement ~n of a 32-bit integer
BitNot(n) == -n - 1

\* element i of a JavaScript array (0-based); reading outside it gives undefined
At(array, i) == IF i >= 0 /\ i < Len(array) THEN array[i + 1] ELSE Undefined

RECURSIVE binarySearchLoop(_, _, _, _)
binarySearchLoop(array, key, low, high) ==
    IF low <= high
    THEN LET middle == low + ((high - low) \div 2)
             midKey == identity(At(array, middle))
             result == compareNumbers(midKey, key)
         IN  IF result < 0 THEN binarySearchLoop(array, key, middle + 1, high)
             ELSE IF result > 0 THEN binarySearchLoop(array, key, low, middle - 1)
             ELSE middle
    ELSE BitNot(low)

binarySearch(array, value) ==
    IF Len(array) = 0 THEN -1
    ELSE binarySearchLoop(array, identity(value), 0, Len(array) - 1)

\* removeAt as it would be if it dropped the last slot without shifting
removeAt_NoShift(array, index) == SubSeq(array, 1, Len(array) - 1)

removeAt(array, index) ==
    [i \in 1..(Len(array) - 1) |-> IF i - 1 < index THEN array[i] ELSE array[i + 1]]

\* insertAt as it would be if it always added at the end
insertAt_Append(array, index, value) == Append(array, value)

insertAt(array, index, value) ==
    IF index = 0 THEN <<value>> \o array
    ELSE IF index = Len(array) THEN Append(array, value)
    ELSE [i \in 1..(Len(array) + 1) |->
            IF i - 1 < index THEN array[i]
            ELSE IF i - 1 = index THEN value
            ELSE array[i - 1]]

\* ------------------------------------------------------------------------
\* KeyedCollection
\* ------------------------------------------------------------------------

KcSize == Len(_keys)

KcHas(key) == binarySearch(_keys, key) >= 0

KcGet(key) ==
    LET index == binarySearch(_keys, key)
    IN  IF index >= 0 THEN At(_values, index) ELSE Undefined

\* insert index x into the sorted index list, after every index whose
\* sequence number is not greater (Array.prototype.sort is stable)
RECURSIVE sortInsert(_, _, _)
sortInsert(sorted, x, order) ==
    IF sorted = <<>> THEN <<x>>
    ELSE IF compareNumbers(At(order, x), At(order, Head(sorted))) < 0
         THEN <<x>> \o sorted
         ELSE <<Head(sorted)>> \o sortInsert(Tail(sorted), x, order)

RECURSIVE sortIndices(_, _)
sortIndices(n, order) ==
    IF n = 0 THEN <<>>
    ELSE sortInsert(sortIndices(n - 1, order), n - 1, order)

\* getInsertionOrder as it would be if it left the indices in key order
getInsertionOrder_Unsorted(order) == [i \in 1..Len(order) |-> i - 1]

getInsertionOrder(order) == sortIndices(Len(order), order)

\* the arrays an activation of forEach reads: the live ones while it still
\* shares them, else the ones it captured
FrameKeys(f) == IF f.shared THEN _keys ELSE f.keys

FrameValues(f) == IF f.shared THEN _values ELSE f.values

Top == frames[Len(frames)]

\* a caller can run: at top level, or inside the callback of the innermost forEach
InCaller == IF frames = <<>> THEN TRUE ELSE Top.pos >= 1

\* writePreamble when the flag is set: every activation still reading the
\* live arrays keeps them, the collection moves on to fresh copies
Detach(fs) ==
    [i \in 1..Len(fs) |->
        IF fs[i].shared
        THEN [fs[i] EXCEPT !.shared = FALSE, !.keys = _keys, !.values = _values]
        ELSE fs[i]]

\* writePreamble as it would be if it never cloned: the activations go on
\* reading the arrays the mutation is applied to
writePreamble_NoClone(fs) == fs

writePreamble(fs) == IF _copyOnWrite THEN Detach(fs) ELSE fs

\* a running forEach has had a value replaced under it by set on an existing key
MarkUpdated(fs) == [i \in 1..Len(fs) |-> [fs[i] EXCEPT !.updated = TRUE]]

\* a running forEach has had another forEach started by its callback
MarkNested(fs) == [i \in 1..Len(fs) |-> [fs[i] EXCEPT !.nested = TRUE]]

\* the reference map: a list of pairs in insertion order
RefIndex(r, key) == IF \E i \in 1..Len(r) : r[i][1] = key
                    THEN CHOOSE i \in 1..Len(r) : r[i][1] = key
                    ELSE 0

RefSet(r, key, value) ==
    IF RefIndex(r, key) > 0
    THEN [r EXCEPT ![RefIndex(r, key)] = <<key, value>>]
    ELSE Append(r, <<key, value>>)

RefDelete(r, key) ==
    IF RefIndex(r, key) > 0
    THEN [i \in 1..(Len(r) - 1) |-> IF i < RefIndex(r, key) THEN r[i] ELSE r[i + 1]]
    ELSE r

\* set as it would be if it treated the update of a present key as a
\* structural change
KcSet_Structural(key, value) ==
    /\ InCaller
    /\ _version < caller.versions
    /\ LET index == binarySearch(_keys, key)
       IN  /\ frames' = writePreamble(frames)
           /\ _copyOnWrite' = FALSE
           /\ _version' = _version + 1
           /\ IF index >= 0
              THEN /\ _values' = [_values EXCEPT ![index + 1] = value]
                   /\ UNCHANGED <<_keys, _order>>
              ELSE /\ _keys' = insertAt(_keys, BitNot(index), key)
                   /\ _values' = insertAt(_values, BitNot(index), value)
                   /\ _order' = insertAt(_order, BitNot(index), _version)
    /\ ref' = RefSet(ref, key, value)
    /\ ret' = [op |-> "kc.set", layer |-> 0, key |-> Undefined, val |-> Undefined]
    /\ UNCHANGED <<caller, chain, heap, md, everSet, mdFrames, search>>

KcSet(key, value) ==
    /\ InCaller
    /\ LET index == binarySearch(_keys, key)
       IN  IF index >= 0
           THEN /\ _values' = [_values EXCEPT ![index + 1] = value]
                /\ frames' = IF At(_values, index) = value THEN frames ELSE MarkUpdated(frames)
                /\ UNCHANGED <<_keys, _order, _version, _copyOnWrite>>
           ELSE /\ _version < caller.versions
                /\ frames' = writePreamble(frames)
                /\ _copyOnWrite' = FALSE
                /\ _keys' = insertAt(_keys, BitNot(index), key)
                /\ _values' = insertAt(_values, BitNot(index), value)
                /\ _order' = insertAt(_order, BitNot(index), _version)
                /\ _version' = _version + 1
    /\ ref' = RefSet(ref, key, value)
    /\ ret' = [op |-> "kc.set", layer |-> 0, key |-> Undefined, val |-> Undefined]
    /\ UNCHANGED <<caller, chain, heap, md, everSet, mdFrames, search>>

\* delete as it would be if it counted the version down
KcDelete_Decrement(key) ==
    /\ InCaller
    /\ LET index == binarySearch(_keys, key)
       IN  IF index >= 0
           THEN /\ _version < caller.versions
                /\ frames' = writePreamble(frames)
                /\ _copyOnWrite' = FALSE
                /\ _keys' = removeAt(_keys, index)
                /\ _values' = removeAt(_values, index)
                /\ _order' = removeAt(_order, index)
                /\ _version' = _version - 1
                /\ ret' = [op |-> "kc.delete", layer |-> 0, key |-> Undefined, val |-> TRUE]
           ELSE /\ ret' = [op |-> "kc.delete", layer |-> 0, key |-> Undefined, val |-> FALSE]
                /\ UNCHANGED <<_keys, _values, _order, _version, _copyOnWrite, frames>>
    /\ ref' = RefDelete(ref, key)
    /\ UNCHANGED <<caller, chain, heap, md, everSet, mdFrames, search>>

KcDelete(key) ==
    /\ InCaller
    /\ LET index == binarySearch(_keys, key)
       IN  IF index >= 0
           THEN /\ _version < caller.versions
                /\ frames' = writePreamble(frames)
                /\ _copyOnWrite' = FALSE
                /\ _keys' = removeAt(_keys, index)
                /\ _values' = removeAt(_values, index)
                /\ _order' = removeAt(_order, index)
                /\ _version' = _version + 1
                /\ ret' = [op |-> "kc.delete", layer |-> 0, key |-> Undefined, val |-> TRUE]
           ELSE /\ ret' = [op |-> "kc.delete", layer |-> 0, key |-> Undefined, val |-> FALSE]
                /\ UNCHANGED <<_keys, _values, _order, _version, _copyOnWrite, frames>>
    /\ ref' = RefDelete(ref, key)
    /\ UNCHANGED <<caller, chain, heap, md, everSet, mdFrames, search>>

KcClear ==
    /\ InCaller
    /\ IF KcSize > 0
       THEN /\ frames' = writePreamble(frames)
            /\ _copyOnWrite' = FALSE
            /\ _keys' = <<>>
            /\ _values' = <<>>
            /\ _order' = <<>>
            /\ _version' = 0
       ELSE UNCHANGED <<_keys, _values, _order, _version, _copyOnWrite, frames>>
    /\ ref' = <<>>
    /\ ret' = [op |-> "kc.clear", layer |-> 0, key |-> Undefined, val |-> Undefined]
    /\ UNCHANGED <<caller, chain, heap, md, everSet, mdFrames, search>>

\* forEach up to the loop: capture the arrays, the order and the version
KcForEachBegin ==
    /\ InCaller
    /\ Len(frames) < caller.depth
    /\ frames' = Append(MarkNested(frames),
                        [shared |-> TRUE, keys |-> <<>>, values |-> <<>>,
                         order |-> getInsertionOrder(_order), version |-> _version,
                         pos |-> 0, expect |-> ref, nested |-> FALSE, updated |-> FALSE])
    /\ _copyOnWrite' = TRUE
    /\ ret' = [op |-> "kc.forEach", layer |-> 0, key |-> Undefined, val |-> Undefined]
    /\ UNCHANGED <<_keys, _values, _order, _version, ref>>
    /\ UNCHANGED <<caller, chain, heap, md, everSet, mdFrames, search>>

\* one iteration of the loop: the previous callback (if any) has returned and
\* the callback is invoked for the next index
KcForEachVisit ==
    /\ frames # <<>>
    /\ Top.pos < Len(Top.order)
    /\ LET index == Top.order[Top.pos + 1]
       IN  ret' = [op |-> "kc.visit", layer |-> 0, key |-> At(FrameKeys(Top), index),
                   val |-> At(FrameValues(Top), index)]
    /\ frames' = [frames EXCEPT ![Len(frames)].pos = @ + 1]
    /\ UNCHANGED <<_keys, _values, _order, _version, _copyOnWrite, ref>>
    /\ UNCHANGED <<caller, chain, heap, md, everSet, mdFrames, search>>

\* the loop is over: the flag is cleared if the version is the captured one
KcForEachEnd ==
    /\ frames # <<>>
    /\ Top.pos = Len(Top.order)
    /\ _copyOnWrite' = IF Top.version = _version THEN FALSE ELSE _copyOnWrite
    /\ frames' = SubSeq(frames, 1, Len(frames) - 1)
    /\ ret' = [op |-> "kc.forEachEnd", layer |-> 0, key |-> Undefined, val |-> Undefined]
    /\ UNCHANGED <<_keys, _values, _order, _version, ref>>
    /\ UNCHANGED <<caller, chain, heap, md, everSet, mdFrames, search>>

\* the callback of the innermost forEach throws: forEach has no try/finally,
\* so the exception leaves it without the epilogue and the flag stays as it
\* is; the exception reaches the callback of the enclosing forEach, which
\* catches it or throws in turn, or the caller
KcForEachThrow ==
    /\ frames # <<>>
    /\ Top.pos >= 1
    /\ frames' = SubSeq(frames, 1, Len(frames) - 1)
    /\ ret' = [op |-> "kc.throw", layer |-> 0, key |-> Undefined, val |-> Undefined]
    /\ UNCHANGED <<_keys, _values, _order, _version, _copyOnWrite, ref>>
    /\ UNCHANGED <<caller, chain, heap, md, everSet, mdFrames, search>>

KcInit ==
    /\ _keys = <<>>
    /\ _values = <<>>
    /\ _order = <<>>
    /\ _version = 0
    /\ _copyOnWrite = FALSE
    /\ frames = <<>>
    /\ caller \in Callers
    /\ ref = <<>>

\* ------------------------------------------------------------------------
\* Metadata
\* ------------------------------------------------------------------------

_escapeKey(text) ==
    IF Len(text) >= 2 /\ text[1] = "_" /\ text[2] = "_" THEN <<"_">> \o text ELSE text

_unescapeKey(text) ==
    IF Len(text) >= 3 /\ text[1] = "_" /\ text[2] = "_" /\ text[3] = "_"
    THEN Tail(text) ELSE text

\* Object.create(proto): a property map with no own properties
\* names lists the own property names in the order of their creation
ObjectCreate(proto) == [props |-> <<>>, names |-> <<>>, proto |-> proto]

\* map[key], resolved along the prototype chain; undefined if no object has it
RECURSIVE GetProperty(_, _, _)
GetProperty(h, id, key) ==
    IF id = Null THEN Undefined
    ELSE IF key \in DOMAIN h[id].props THEN h[id].props[key]
    ELSE GetProperty(h, h[id].proto, key)

\* the keys that `for (key in map)` enumerates: own and inherited, each once
RECURSIVE ForInKeys(_, _)
ForInKeys(h, id) ==
    IF id = Null THEN {}
    ELSE DOMAIN h[id].props \cup ForInKeys(h, h[id].proto)

\* the names, in the order `for (key in map)` enumerates them: the own ones
\* in the order of their creation, then those of the prototype that are not
\* shadowed
RECURSIVE ForInOrder(_, _)
ForInOrder(h, id) ==
    IF id = Null THEN <<>>
    ELSE h[id].names \o SelectSeq(ForInOrder(h, h[id].proto),
                                  LAMBDA key : key \notin DOMAIN h[id].props)

\* map[key] = value: always an own property of the map itself, created last
\* if the map does not have it
PutProperty(obj, key, value) ==
    [obj EXCEPT !.props = [k \in DOMAIN obj.props \cup {key} |->
                              IF k = key THEN value ELSE obj.props[k]],
                !.names = IF key \in DOMAIN obj.props THEN @ ELSE Append(@, key)]

\* delete map[key]: removes an own property, nothing else
DeleteProperty(obj, key) ==
    [obj EXCEPT !.props = [k \in DOMAIN obj.props \ {key} |-> obj.props[k]],
                !.names = SelectSeq(@, LAMBDA k : k # key)]

\* the objects some layer can still reach from its _map, or some forEach in
\* progress from the map it enumerates
RECURSIVE ProtoChain(_, _)
ProtoChain(h, id) == IF id = Null THEN {} ELSE {id} \cup ProtoChain(h, h[id].proto)

Reachable(h, m, fs) ==
    UNION ({ ProtoChain(h, m[layer]._map) : layer \in Layers }
              \cup { ProtoChain(h, fs[i].map) : i \in 1..Len(fs) })

\* objects neither reaches are collected; their identities are free again
Collect(h, m, fs) ==
    [id \in ObjIds |-> IF id \in Reachable(h, m, fs) THEN h[id] ELSE ObjectCreate(Null)]

FreshId == CHOOSE id \in ObjIds :
              /\ id \notin Reachable(heap, md, mdFrames)
              /\ \A other \in ObjIds : other < id => other \in Reachable(heap, md, mdFrames)

\* the sum of the _version counters of the layers in ls
RECURSIVE VersionSum(_)
VersionSum(ls) ==
    IF ls = {} THEN 0
    ELSE LET layer == CHOOSE l \in ls : TRUE
         IN  md[layer]._version + VersionSum(ls \ {layer})

\* a structural change is still within the explored bound
CanBump == VersionSum(Layers) < chain.versions

\* the innermost activation of Metadata.forEach
MdTop == mdFrames[Len(mdFrames)]

\* the user's code is running: no forEach is in progress, or the innermost
\* one has called its callback
MdInCaller == IF mdFrames = <<>> THEN TRUE ELSE MdTop.calls >= 1

\* a forEach in progress has had a layer changed by its callback
MdMarkChanged(fs) == [i \in 1..Len(fs) |-> [fs[i] EXCEPT !.changed = TRUE]]

MdHas(layer, key) == GetProperty(heap, md[layer]._map, _escapeKey(key)) # Undefined

MdGet(layer, key) ==
    LET value == GetProperty(heap, md[layer]._map, _escapeKey(key))
    IN  IF value = _undefinedValue THEN Undefined ELSE value

HasParent(layer) == md[layer]._parent # Undefined

\* the staleness test as it would be if it ignored the parent's version
SizeIsStale_OwnOnly(layer) == md[layer]._size = -1

\* whether the size getter recomputes rather than answer from its cache
SizeIsStale(layer) ==
    \/ md[layer]._size = -1
    \/ /\ HasParent(layer)
       /\ md[md[layer]._parent]._version # md[layer]._parentVersion

\* what the size getter returns
MdSizeValue(layer) ==
    IF SizeIsStale(layer)
    THEN Cardinality(ForInKeys(heap, md[layer]._map))
    ELSE md[layer]._size

MdSize(layer) ==
    /\ MdInCaller
    /\ md' = IF SizeIsStale(layer)
             THEN [md EXCEPT ![layer]._size = Cardinality(ForInKeys(heap, md[layer]._map)),
                             ![layer]._parentVersion =
                                 IF HasParent(layer) THEN md[md[layer]._parent]._version ELSE @]
             ELSE md
    /\ ret' = [op |-> "md.size", layer |-> layer, key |-> Undefined, val |-> MdSizeValue(layer)]
    /\ UNCHANGED <<heap, everSet, mdFrames>>
    /\ UNCHANGED <<_keys, _values, _order, _version, _copyOnWrite, frames, caller, ref, chain, search>>

\* the object along the prototype chain of id that holds key, or id itself
RECURSIVE Holder(_, _, _)
Holder(h, id, key) ==
    IF id = Null THEN Null
    ELSE IF key \in DOMAIN h[id].props THEN id
    ELSE Holder(h, h[id].proto, key)

\* set as it would be if it assigned to the inherited property where there
\* is one
MdSet_WriteThrough(layer, key, value) ==
    /\ MdInCaller
    /\ CanBump
    /\ mdFrames' = MdMarkChanged(mdFrames)
    /\ LET holder == Holder(heap, md[layer]._map, _escapeKey(key))
           target == IF holder = Null THEN md[layer]._map ELSE holder
       IN  heap' = [heap EXCEPT ![target] =
                       PutProperty(@, _escapeKey(key),
                                   IF value = Undefined THEN _undefinedValue ELSE value)]
    /\ md' = [md EXCEPT ![layer]._size = -1, ![layer]._version = @ + 1]
    /\ everSet' = [everSet EXCEPT ![layer] = @ \cup {key}]
    /\ ret' = [op |-> "md.set", layer |-> layer, key |-> key, val |-> value]
    /\ UNCHANGED <<_keys, _values, _order, _version, _copyOnWrite, frames, caller, ref, chain, search>>

\* set as it would be if it stored undefined as it is
MdSet_NoMarker(layer, key, value) ==
    /\ MdInCaller
    /\ CanBump
    /\ mdFrames' = MdMarkChanged(mdFrames)
    /\ heap' = [heap EXCEPT ![md[layer]._map] = PutProperty(@, _escapeKey(key), value)]
    /\ md' = [md EXCEPT ![layer]._size = -1, ![layer]._version = @ + 1]
    /\ everSet' = [everSet EXCEPT ![layer] = @ \cup {key}]
    /\ ret' = [op |-> "md.set", layer |-> layer, key |-> key, val |-> value]
    /\ UNCHANGED <<_keys, _values, _order, _version, _copyOnWrite, frames, caller, ref, chain, search>>

MdSet(layer, key, value) ==
    /\ MdInCaller
    /\ CanBump
    /\ mdFrames' = MdMarkChanged(mdFrames)
    /\ heap' = [heap EXCEPT ![md[layer]._map] =
                   PutProperty(@, _escapeKey(key),
                               IF value = Undefined THEN _undefinedValue ELSE value)]
    /\ md' = [md EXCEPT ![layer]._size = -1, ![layer]._version = @ + 1]
    /\ everSet' = [everSet EXCEPT ![layer] = @ \cup {key}]
    /\ ret' = [op |-> "md.set", layer |-> layer, key |-> key, val |-> value]
    /\ UNCHANGED <<_keys, _values, _order, _version, _copyOnWrite, frames, caller, ref, chain, search>>

MdDelete(layer, key) ==
    /\ MdInCaller
    /\ LET escapedKey == _escapeKey(key)
       IN  IF GetProperty(heap, md[layer]._map, escapedKey) # Undefined
           THEN /\ CanBump
                /\ heap' = [heap EXCEPT ![md[layer]._map] = DeleteProperty(@, escapedKey)]
                /\ md' = [md EXCEPT ![layer]._size = -1, ![layer]._version = @ + 1]
                /\ mdFrames' = MdMarkChanged(mdFrames)
                /\ ret' = [op |-> "md.delete", layer |-> layer, key |-> Undefined, val |-> TRUE]
           ELSE /\ ret' = [op |-> "md.delete", layer |-> layer, key |-> Undefined, val |-> FALSE]
                /\ UNCHANGED <<heap, md, mdFrames>>
    /\ UNCHANGED everSet
    /\ UNCHANGED <<_keys, _values, _order, _version, _copyOnWrite, frames, caller, ref, chain, search>>

MdClear(layer) ==
    /\ MdInCaller
    /\ CanBump
    /\ mdFrames' = MdMarkChanged(mdFrames)
    /\ LET proto == IF HasParent(layer) THEN md[md[layer]._parent]._map ELSE Null
           m == [md EXCEPT ![layer]._map = FreshId,
                           ![layer]._size = -1,
                           ![layer]._version = @ + 1]
       IN  /\ md' = m
           /\ heap' = Collect([heap EXCEPT ![FreshId] = ObjectCreate(proto)], m, mdFrames)
    /\ ret' = [op |-> "md.clear", layer |-> layer, key |-> Undefined, val |-> Undefined]
    /\ UNCHANGED everSet
    /\ UNCHANGED <<_keys, _values, _order, _version, _copyOnWrite, frames, caller, ref, chain, search>>

\* forEach up to the loop: the enumeration of this._map starts; the names
\* to visit are those the map has now, the map enumerated stays the same
\* object whatever the callback does
MdForEachBegin(layer) ==
    /\ MdInCaller
    /\ Len(mdFrames) < chain.depth
    /\ mdFrames' = Append(mdFrames,
                          [layer |-> layer, map |-> md[layer]._map,
                           names |-> ForInOrder(heap, md[layer]._map),
                           pos |-> 0, calls |-> 0, changed |-> FALSE])
    /\ ret' = [op |-> "md.forEach", layer |-> layer, key |-> Undefined, val |-> Undefined]
    /\ UNCHANGED <<heap, md, everSet>>
    /\ UNCHANGED <<_keys, _values, _order, _version, _copyOnWrite, frames, caller, ref, chain, search>>

\* the positions of the names still to visit that the enumerated map still
\* has; a name removed before its turn is passed over
MdPending(f) ==
    { i \in (f.pos + 1)..Len(f.names) : f.names[i] \in ForInKeys(heap, f.map) }

\* one iteration of the loop: the previous callback (if any) has returned and
\* the callback is invoked for the next name, with the value this._map has
\* for it now
MdForEachVisit ==
    /\ mdFrames # <<>>
    /\ MdPending(MdTop) # {}
    /\ LET i == CHOOSE n \in MdPending(MdTop) : \A other \in MdPending(MdTop) : n <= other
           key == MdTop.names[i]
       IN  /\ ret' = [op |-> "md.visit", layer |-> MdTop.layer, key |-> _unescapeKey(key),
                      val |-> GetProperty(heap, md[MdTop.layer]._map, key)]
           /\ mdFrames' = [mdFrames EXCEPT ![Len(mdFrames)].pos = i,
                                           ![Len(mdFrames)].calls = @ + 1]
    /\ UNCHANGED <<heap, md, everSet>>
    /\ UNCHANGED <<_keys, _values, _order, _version, _copyOnWrite, frames, caller, ref, chain, search>>

\* the loop is over: the last callback (if any) has returned, no name is
\* left, and the map enumerated is dropped if nothing else holds it
MdForEachEnd ==
    /\ mdFrames # <<>>
    /\ MdPending(MdTop) = {}
    /\ mdFrames' = SubSeq(mdFrames, 1, Len(mdFrames) - 1)
    /\ heap' = Collect(heap, md, SubSeq(mdFrames, 1, Len(mdFrames) - 1))
    /\ ret' = [op |-> "md.forEachEnd", layer |-> MdTop.layer, key |-> Undefined, val |-> Undefined]
    /\ UNCHANGED <<md, everSet>>
    /\ UNCHANGED <<_keys, _values, _order, _version, _copyOnWrite, frames, caller, ref, chain, search>>

\* the callback of the innermost forEach throws: the loop is left at once
MdForEachThrow ==
    /\ mdFrames # <<>>
    /\ MdTop.calls >= 1
    /\ mdFrames' = SubSeq(mdFrames, 1, Len(mdFrames) - 1)
    /\ heap' = Collect(heap, md, SubSeq(mdFrames, 1, Len(mdFrames) - 1))
    /\ ret' = [op |-> "md.throw", layer |-> MdTop.layer, key |-> Undefined, val |-> Undefined]
    /\ UNCHANGED <<md, everSet>>
    /\ UNCHANGED <<_keys, _values, _order, _version, _copyOnWrite, frames, caller, ref, chain, search>>

\* new Metadata(parent): layer i is built on layer i - 1, the root on nothing
NewMetadata(layer) ==
    [_parent |-> IF layer = 1 THEN Undefined ELSE layer - 1,
     _map |-> layer,
     _version |-> 0,
     _size |-> -1,
     _parentVersion |-> Undefined]

MdInit ==
    /\ md = [layer \in Layers |-> NewMetadata(layer)]
    /\ heap = [id \in ObjIds |->
                  IF id \in Layers /\ id > 1 THEN ObjectCreate(id - 1) ELSE ObjectCreate(Null)]
    /\ everSet = [layer \in Layers |-> {}]
    /\ mdFrames = <<>>
    /\ chain \in Chains

\* the elements of S in ascending order
Ascending(S) ==
    [i \in 1..Cardinality(S) |-> CHOOSE x \in S : Cardinality({y \in S : y < x}) = i - 1]

\* the calls of binarySearch that are explored: every strictly ascending
\* array of numbers up to MaxElement, the empty one included, with every
\* number from just below to just above them as the value
Searches ==
    [array : { Ascending(S) : S \in SUBSET (1..MaxElement) },
     value : 0..(MaxElement + 1),
     done : {FALSE},
     result : {Undefined}]

\* binarySearch(array, value, identity, compareNumbers)
BinarySearchCall ==
    /\ ~search.done
    /\ search' = [search EXCEPT !.done = TRUE,
                                !.result = binarySearch(search.array, search.value)]
    /\ UNCHANGED <<_keys, _values, _order, _version, _copyOnWrite, frames, caller, ref>>
    /\ UNCHANGED <<chain, heap, md, everSet, mdFrames, ret>>

Init ==
    /\ KcInit
    /\ MdInit
    /\ search \in Searches
    /\ ret = [op |-> "new", layer |-> 0, key |-> Undefined, val |-> Undefined]

KcNext ==
    \/ \E key \in caller.keys, value \in caller.values : KcSet(key, value)
    \/ \E key \in caller.keys : KcDelete(key)
    \/ KcClear
    \/ KcForEachBegin
    \/ KcForEachVisit
    \/ KcForEachEnd
    \/ KcForEachThrow

MdNext ==
    \/ \E layer \in chain.layers, key \in chain.keys, value \in chain.values : MdSet(layer, key, value)
    \/ \E layer \in chain.layers, key \in chain.keys : MdDelete(layer, key)
    \/ \E layer \in chain.layers : MdClear(layer)
    \/ \E layer \in chain.layers : MdSize(layer)
    \/ \E layer \in chain.layers : MdForEachBegin(layer)
    \/ MdForEachVisit
    \/ MdForEachEnd
    \/ MdForEachThrow

\* the collection is exercised with the Metadata layers left as constructed
InitKc == Init /\ chain.layers = {1, 2, 3} /\ search.array = <<>> /\ search.value = 0

\* a KeyedCollection in use by its caller
Spec == InitKc /\ [][KcNext]_vars

\* the Metadata layers are exercised with the collection left as constructed
InitMd == Init /\ caller.keys = {1, 2, 3} /\ search.array = <<>> /\ search.value = 0

\* a chain of Metadata layers in use
SpecMd == InitMd /\ [][MdNext]_vars

BsNext == BinarySearchCall

\* binarySearch is called, with the collection and the layers left as constructed
InitBs == Init /\ caller.keys = {1, 2, 3} /\ chain.layers = {1, 2, 3}

\* calls of binarySearch on strictly ascending arrays
SpecBs == InitBs /\ [][BsNext]_vars

\* ------------------------------------------------------------------------
\* Properties of the KeyedCollection
\* ------------------------------------------------------------------------

\* what a forEach started now would pass to its callback, in order
LiveEntries ==
    LET order == getInsertionOrder(_order)
    IN  [i \in 1..Len(order) |-> <<At(_keys, order[i]), At(_values, order[i])>>]

\* the callback of activation f has made structural changes only, and has
\* not started a forEach of its own
StructuralOnly(f) == ~f.nested /\ ~f.updated

\* the callback of activation f has not touched the collection at all
Untouched(f) == f.shared /\ ~f.nested /\ ~f.updated

\* C1: a forEach whose callback only deletes, clears or sets new keys (and
\* starts no forEach of its own) invokes the callback once per entry present
\* when it started, in the insertion order and with the key and value of
\* that moment; when it ends, the live collection holds the mutated content.
C1_SnapshotSafe ==
    /\ \A i \in 1..Len(frames) :
          StructuralOnly(frames[i]) => Len(frames[i].order) = Len(frames[i].expect)
    /\ (ret.op = "kc.visit" /\ StructuralOnly(Top))
          => <<ret.key, ret.val>> = Top.expect[Top.pos]
    /\ ret.op = "kc.forEachEnd" => LiveEntries = ref

\* C1 witness: the last entry of a three-entry snapshot is visited after the
\* callback deleted it
C1_Witness ==
    /\ ret.op = "kc.visit"
    /\ StructuralOnly(Top)
    /\ ~Top.shared
    /\ Top.pos = 3
    /\ Len(Top.expect) = 3
    /\ ~KcHas(ret.key)
    /\ <<ret.key, ret.val>> = Top.expect[3]

\* C2: a forEach whose callback starts no forEach of its own passes, for
\* every key, the value the key had when the forEach started, also when the
\* callback has set an existing, not yet visited key to another value.
C2_ValueSnapshot ==
    (ret.op = "kc.visit" /\ ~Top.nested /\ Top.pos <= Len(Top.expect))
        => ret.val = Top.expect[Top.pos][2]

\* C3: the entries are enumerated in the order of their latest fresh
\* insertion, whatever the key order: an update keeps an entry's place, a
\* key deleted and set again goes last; a forEach whose callback leaves the
\* collection alone visits exactly these entries in this order.
C3_InsertionOrder ==
    /\ LiveEntries = ref
    /\ (ret.op = "kc.visit" /\ Untouched(Top))
          => /\ Len(Top.order) = Len(ref)
             /\ <<ret.key, ret.val>> = ref[Top.pos]

\* C3 witness: after set(1), set(2), delete(1), set(1) the forEach has
\* visited key 2 and then key 1
C3_Witness ==
    /\ ret.op = "kc.visit"
    /\ Untouched(Top)
    /\ _keys = <<1, 2>>
    /\ _order = <<3, 1>>
    /\ Top.pos = 2
    /\ ret.key = 1

\* the keys of the reference map
RefKeys == { ref[i][1] : i \in 1..Len(ref) }

\* C4: has, get and size answer as a plain map does, and delete returns
\* true exactly when the key was present before the call.
C4_PlainMap ==
    /\ [](/\ \A key \in caller.keys :
              /\ KcHas(key) = (key \in RefKeys)
              /\ KcGet(key) = IF key \in RefKeys
                              THEN ref[RefIndex(ref, key)][2] ELSE Undefined
          /\ KcSize = Cardinality(RefKeys))
    /\ [][ ret'.op = "kc.delete" =>
              \A key \in caller.keys :
                 KcDelete(key) => (ret'.val = (key \in RefKeys) /\ key \notin RefKeys')
         ]_vars

\* C4 witness: a delete has returned true and left other keys behind
C4_Witness ==
    /\ ret.op = "kc.delete"
    /\ ret.val = TRUE
    /\ KcSize = 2
    /\ frames = <<>>

\* ------------------------------------------------------------------------
\* Properties of the Metadata overlay
\* ------------------------------------------------------------------------

\* layer holds an own entry for key
OwnHas(layer, key) == _escapeKey(key) \in DOMAIN heap[md[layer]._map].props

\* the layers above a layer: its parent, its parent's parent, ...
RECURSIVE Ancestors(_)
Ancestors(layer) ==
    IF HasParent(layer)
    THEN {md[layer]._parent} \cup Ancestors(md[layer]._parent)
    ELSE {}

\* the keys visible through a layer
VisibleKeys(layer) == { key \in MdKeys : MdHas(layer, key) }

\* C5: for a key the child holds no own entry for, has and get of the
\* child answer as has and get of its parent, whatever was done to either.
C5_FallThrough ==
    \A layer \in chain.layers : \A key \in MdKeys :
        (HasParent(layer) /\ ~OwnHas(layer, key))
            => /\ MdHas(layer, key) = MdHas(md[layer]._parent, key)
               /\ MdGet(layer, key) = MdGet(md[layer]._parent, key)

\* C6: every read of size, on a layer of a chain of any depth, returns the
\* number of distinct keys visible through that layer.
C6_SizeAnyDepth ==
    ret.op = "md.size" => ret.val = Cardinality(VisibleKeys(ret.layer))

\* C7: in a two-layer chain (a root and its child) every read of the
\* child's size returns the number of keys for which the child's has is
\* true, a key defined in both layers counted once.
C7_SizeTwoLayers ==
    (ret.op = "md.size" /\ Ancestors(ret.layer) = {1})
        => ret.val = Cardinality(VisibleKeys(ret.layer))

\* C7 witness: the child was never changed, the parent got a second key
\* after the child's size had been cached, and the child's size reads 2
C7_Witness ==
    /\ ret.op = "md.size"
    /\ ret.layer = 2
    /\ ret.val = 2
    /\ md[2]._version = 0
    /\ md[2]._parentVersion = 2

\* C8: set, delete and clear of a layer leave has, get and size of every
\* ancestor as they were.  (The call just made is on ret'.layer; a delete
\* that finds nothing changes no variable but ret.)
C8_AncestorsUntouched ==
    [][ ret'.op \in {"md.set", "md.delete", "md.clear"}
          => \A up \in Ancestors(ret'.layer) :
                /\ MdSizeValue(up)' = MdSizeValue(up)
                /\ \A key \in MdKeys :
                      /\ MdHas(up, key)' = MdHas(up, key)
                      /\ MdGet(up, key)' = MdGet(up, key)
      ]_vars

\* C8 witness: the child has shadowed a key of its parent with another
\* value, and the parent still answers with its own
C8_Witness ==
    /\ ret.op = "md.set"
    /\ ret.layer = 2
    /\ OwnHas(1, <<"_", "_">>) /\ OwnHas(2, <<"_", "_">>)
    /\ MdGet(1, <<"_", "_">>) = 1
    /\ MdGet(2, <<"_", "_">>) = 2
    /\ md[1]._size = 1

\* C9: when the parent defines a key and the child shadows it, delete on
\* the child leaves the key visible through the child with the parent's
\* value; clear on the child leaves every key of the parent visible through
\* the child with the parent's value.
C9_DeleteReexposes ==
    [][ \A layer \in chain.layers :
          (ret'.layer = layer /\ HasParent(layer)) =>
            /\ ret'.op = "md.delete" =>
                  \A key \in chain.keys :
                     (/\ OwnHas(layer, key)
                      /\ MdHas(md[layer]._parent, key)
                      /\ MdDelete(layer, key))
                        => /\ MdHas(layer, key)'
                           /\ MdGet(layer, key)' = MdGet(md[layer]._parent, key)
            /\ ret'.op = "md.clear" =>
                  \A key \in MdKeys :
                     MdHas(md[layer]._parent, key)
                        => /\ MdHas(layer, key)'
                           /\ MdGet(layer, key)' = MdGet(md[layer]._parent, key)
      ]_vars

\* the keys ever set in a layer or in one of its ancestors
EverSetInChain(layer) == everSet[layer] \cup UNION { everSet[up] : up \in Ancestors(layer) }

\* C10: after set(key, value), undefined included, has(key) is true,
\* get(key) returns the value and the key is counted by size, also when the
\* key shadows a value of the parent; a key never set in the layer or an
\* ancestor is not reported by has and not counted.
C10_ExplicitUndefined ==
    /\ ret.op = "md.set"
          => /\ MdHas(ret.layer, ret.key)
             /\ MdGet(ret.layer, ret.key) = ret.val
             /\ _escapeKey(ret.key) \in ForInKeys(heap, md[ret.layer]._map)
             /\ MdSizeValue(ret.layer) = Cardinality(VisibleKeys(ret.layer))
    /\ \A layer \in Layers : \A key \in MdKeys :
          key \notin EverSetInChain(layer)
            => /\ ~MdHas(layer, key)
               /\ _escapeKey(key) \notin ForInKeys(heap, md[layer]._map)

\* C10 witness: the child has set to undefined a key its parent defines
\* with value 1, while the other key was never set anywhere
C10_Witness ==
    /\ ret.op = "md.set"
    /\ ret.layer = 2
    /\ ret.val = Undefined
    /\ MdGet(1, <<"_", "_">>) = 1
    /\ OwnHas(2, <<"_", "_">>)
    /\ MdHas(2, <<"_", "_">>)
    /\ MdGet(2, <<"_", "_">>) = Undefined
    /\ <<"a">> \notin EverSetInChain(2)
    /\ md[2]._size = -1

\* C11: forEach with a callback that changes nothing calls it exactly once
\* for every key visible through the layer and for no other key, and passes
\* for each key what get returns for it: the nearest layer's value, and
\* undefined for a key set to undefined.
C11_ForEachPassesGet ==
    /\ (ret.op = "md.visit" /\ ~MdTop.changed)
          => ret.val = MdGet(ret.layer, ret.key)
    /\ \A i \in 1..Len(mdFrames) :
          LET f == mdFrames[i]
          IN  ~f.changed =>
                 /\ \A m, n \in 1..Len(f.names) : m # n => f.names[m] # f.names[n]
                 /\ { _unescapeKey(f.names[n]) : n \in 1..Len(f.names) } = VisibleKeys(f.layer)
                 /\ f.calls = f.pos
                 /\ (MdPending(f) = {} => f.calls = Cardinality(VisibleKeys(f.layer)))

\* C12: clear() leaves the collection empty, and the key inserted by the
\* call that follows a clear() is stored with sequence number 0, also when
\* the collection was already empty after earlier inserts and deletes.
C12_ClearRestartsNumbering ==
    /\ [](ret.op = "kc.clear" => KcSize = 0)
    /\ [][(ret.op = "kc.clear" /\ ret'.op = "kc.set" /\ Len(_keys') = 1)
              => _order'[1] = 0]_vars

\* C19: delete returns true exactly when the layer itself held an entry for
\* the key, which it removes; for a key visible only through an ancestor it
\* returns false and leaves the layer's entries and version as they were.
C19_DeleteOwnOnly ==
    [][ret'.op = "md.delete" =>
          \A layer \in chain.layers, key \in chain.keys :
             (ret'.layer = layer /\ MdDelete(layer, key)) =>
                 /\ ret'.val = OwnHas(layer, key)
                 /\ ~OwnHas(layer, key)'
                 /\ ~OwnHas(layer, key) => (heap' = heap /\ md'[layer]._version = md[layer]._version)]_vars

\* ------------------------------------------------------------------------
\* Further properties of the KeyedCollection
\* ------------------------------------------------------------------------

\* C14: while a forEach is in progress and the arrays it captured are still
\* the live arrays of the collection, the copy-on-write flag is set, so that
\* no structural change is made in place to arrays a traversal is reading.
C14_FlagWhileShared ==
    \A i \in 1..Len(frames) : frames[i].shared => _copyOnWrite


\* C15: the live arrays _keys, _values and _order have the same length,
\* _keys is strictly ascending, and slot i of _values and of _order belongs
\* to the key in slot i of _keys: the value is the one last set for that key,
\* and the sequence number is the one the key got when it was inserted,
\* which is the value _version had then.  This holds after every call, those
\* made from forEach callbacks included.
C15_ParallelArrays ==
    /\ [](/\ Len(_values) = Len(_keys)
          /\ Len(_order) = Len(_keys)
          /\ \A i \in 1..(Len(_keys) - 1) : _keys[i] < _keys[i + 1]
          /\ { _keys[i] : i \in 1..Len(_keys) } = RefKeys
          /\ \A i \in 1..Len(_keys) : _values[i] = ref[RefIndex(ref, _keys[i])][2])
    /\ [][\A i \in 1..Len(_keys') :
             LET was == binarySearch(_keys, _keys'[i])
             IN  _order'[i] = IF was >= 0 THEN At(_order, was) ELSE _version]_vars

\* a callback has made a structural change, and the collection holds keys
\* whose insertion order is not their key order
C15_Witness ==
    /\ frames # <<>>
    /\ ~Top.shared
    /\ Len(_keys) >= 2
    /\ At(_order, 0) > At(_order, 1)

\* C16: every structural change leaves _version strictly greater than it
\* was: each set that inserts, each delete that removes, and each clear()
\* that empties the collection.
C16_VersionIncreases ==
    [][_keys' # _keys => _version' > _version]_vars

\* C17: set on a key that is present changes the value stored for that key
\* and nothing else: the keys, the other values, the sequence numbers, the
\* version and the copy-on-write flag stay as they were, and no array is
\* cloned, so every forEach in progress keeps reading the arrays it read.
C17_UpdateInPlace ==
    [][ret'.op = "kc.set" =>
          \A key \in caller.keys, value \in caller.values :
             (KcHas(key) /\ KcSet(key, value)) =>
                 /\ _keys' = _keys
                 /\ _order' = _order
                 /\ _version' = _version
                 /\ _copyOnWrite' = _copyOnWrite
                 /\ _values' = [_values EXCEPT ![binarySearch(_keys, key) + 1] = value]
                 /\ Len(frames') = Len(frames)
                 /\ \A i \in 1..Len(frames) :
                       [frames'[i] EXCEPT !.updated = frames[i].updated] = frames[i]]_vars

\* a callback has changed the value of a present key while the flag was set
C17_Witness ==
    /\ ret.op = "kc.set"
    /\ frames # <<>>
    /\ Top.updated
    /\ Top.shared
    /\ _copyOnWrite

\* C18: whenever no forEach is in progress the copy-on-write flag is down,
\* so a change made outside an enumeration clones nothing; and during a
\* forEach whose callback starts no forEach of its own the arrays are cloned
\* at most once, by the first structural change the callback makes: a
\* structural change clones only while the forEach still reads the live
\* arrays, and after it the forEach reads its own arrays and the flag is down.
C18_CloneAtMostOnce ==
    /\ [](frames = <<>> => ~_copyOnWrite)
    /\ []((Len(frames) = 1 /\ ~frames[1].nested) => (_copyOnWrite = frames[1].shared))
    /\ [][(Len(frames) = 1 /\ ~frames[1].nested /\ _keys' # _keys)
             => /\ ~_copyOnWrite'
                /\ ~frames'[1].shared
                /\ (frames[1].shared => (frames'[1].keys = _keys /\ frames'[1].values = _values))
                /\ (~frames[1].shared => frames' = frames)]_vars

\* C20: the sequence numbers in the live _order are pairwise distinct, and
\* each is strictly less than _version.
C20_SequenceNumbers ==
    /\ \A i, j \in 1..Len(_order) : i # j => _order[i] # _order[j]
    /\ \A i \in 1..Len(_order) : _order[i] < _version

\* keys have been inserted and removed, and the collection holds two or more
\* keys whose sequence numbers are not consecutive
C20_Witness ==
    /\ Len(_order) >= 2
    /\ \E i \in 1..Len(_order) : _order[i] + 1 < _version /\ \A j \in 1..Len(_order) : _order[j] # _order[i] + 1

\* ------------------------------------------------------------------------
\* Properties of binarySearch
\* ------------------------------------------------------------------------

\* C13: over a strictly ascending array binarySearch returns the index of
\* the element equal to the value if there is one; otherwise it returns a
\* negative number whose complement is the insertion index, with every
\* element before it less and every element from it on greater than the
\* value; for the empty array that is -1.
C13_BinarySearch ==
    search.done =>
        LET array == search.array
            value == search.value
            result == search.result
        IN  IF \E i \in 0..(Len(array) - 1) : At(array, i) = value
            THEN result >= 0 /\ result < Len(array) /\ At(array, result) = value
            ELSE /\ result < 0
                 /\ BitNot(result) \in 0..Len(array)
                 /\ \A i \in 0..(Len(array) - 1) :
                        IF i < BitNot(result) THEN At(array, i) < value
                        ELSE At(array, i) > value
                 /\ (array = <<>> => result = -1)

\* a value that is absent has been searched in an array of three or more
\* elements, some smaller and some greater than it
C13_Witness ==
    /\ search.done
    /\ Len(search.array) >= 3
    /\ search.result < -1
    /\ BitNot(search.result) < Len(search.array)

====
